---- MODULE Spec2Model ----
(***************************************************************************)
(* FreeBili (src/main.py): the concurrent multi-source search core.        *)
(*                                                                         *)
(*   parse_cms_data         the Response Normalizer (pure)                 *)
(*   fetch_and_process      the Source Fetcher (one task per endpoint)     *)
(*   search_event_generator the Fan-Out Stream Coordinator (async          *)
(*                          generator over asyncio.as_completed)           *)
(*   search, update_config  the two handlers that read / replace the       *)
(*                          process-wide site_config                       *)
(*                                                                         *)
(* Python values are tagged records ([t |-> "str", v |-> ...]) so that     *)
(* values of different Python types can be compared; a Python string is a  *)
(* sequence of one-character strings; a Python dict with optional keys is  *)
(* a function whose DOMAIN is the set of keys present.  A computation that *)
(* may raise yields Ok(v) or Raise(exc).                                   *)
(***************************************************************************)
EXTENDS Integers, Sequences, FiniteSets, TLC

\* Largest number of entries of site_config["base_urls"] that is explored.
MaxEndpoints == 2

\* Longest vod_play_url string, over the characters of PlayChars, that the
\* normalizer is applied to.
MaxLen == 7

\* Longest list of raw items, over SampleItems, that it is applied to.
MaxItems == 3

-----------------------------------------------------------------------------
(* The state of the process *)

VARIABLES
    site_config,   \* line 29: the process-wide configuration
    request,       \* the query of the latest GET /search
    reply,         \* what search() answered to it
    gen,           \* the search_event_generator object of that request
    client,        \* the httpx.AsyncClient of line 198
    tasks,         \* line 200: one record per created fetch_and_process task
    queue,         \* as_completed's queue: finished tasks not yet awaited
    completed,     \* every finished task, in the order the tasks finished
    frames,        \* the SSE frames yielded so far (line 211)
    started,       \* site_config as it was when search() accepted the request
    cfg_reply      \* what the latest POST /config answered

vars == <<site_config, request, reply, gen, client, tasks, queue, completed,
          frames, started, cfg_reply>>

-----------------------------------------------------------------------------
(* Python values *)

Str(s)  == [t |-> "str", v |-> s]
PyInt(n) == [t |-> "int", v |-> n]
List(l) == [t |-> "list", v |-> l]
Dict(d) == [t |-> "dict", v |-> d]
None    == [t |-> "None"]

Ok(v)      == [raised |-> FALSE, value |-> v]
Raise(exc) == [raised |-> TRUE, exc |-> exc]

\* dict.get(key, default)
Get(d, key, default) == IF key \in DOMAIN d THEN d[key] ELSE default

\* Python truth value of a value: None, "", [] and 0 are falsy.
Truthy(x) ==
    CASE x.t = "None" -> FALSE
      [] x.t = "str"  -> x.v # <<>>
      [] x.t = "list" -> x.v # <<>>
      [] x.t = "int"  -> x.v # 0
      [] OTHER        -> TRUE

\* Least index i >= from at which sep occurs in s, 0 when there is none.
RECURSIVE FindSep(_, _, _)
FindSep(s, sep, from) ==
    IF from + Len(sep) - 1 > Len(s) THEN 0
    ELSE IF SubSeq(s, from, from + Len(sep) - 1) = sep THEN from
    ELSE FindSep(s, sep, from + 1)

\* str.split(sep): the pieces of s between the non-overlapping occurrences
\* of sep, scanned left to right; a string without sep is its own one piece.
RECURSIVE Split(_, _)
Split(s, sep) ==
    LET i == FindSep(s, sep, 1) IN
    IF i = 0 THEN <<s>>
    ELSE <<SubSeq(s, 1, i - 1)>> \o Split(SubSeq(s, i + Len(sep), Len(s)), sep)

-----------------------------------------------------------------------------
(* parse_cms_data, lines 101-141 *)

SourceSep  == <<"$", "$", "$">>
EpisodeSep == <<"#">>
NameUrlSep == <<"$">>
UnknownName == Str(<<"unknown-name">>)

\* Line 116 taking the last play source instead of the first.
LastSource(play) == Split(play, SourceSep)[Len(Split(play, SourceSep))]

\* Line 116: `.split("$$$")[0]`, the first play source.
FirstSource(play) == Split(play, SourceSep)[1]

\* Lines 123-126 as `if len(parts) >= 2`, with the first two parts taken.
EpisodeOfFirstTwoParts(episode) ==
    LET parts == Split(episode, NameUrlSep) IN
    IF Len(parts) >= 2
       THEN << [name |-> Str(parts[1]), video_url |-> Str(parts[2])] >>
       ELSE <<>>

\* Lines 123-126: what one episode token appends to videos.
EpisodeOf(episode) ==
    LET parts == Split(episode, NameUrlSep) IN
    IF Len(parts) = 2
       THEN << [name |-> Str(parts[1]), video_url |-> Str(parts[2])] >>
       ELSE <<>>

\* Lines 121-126: the loop over the episode tokens.
RECURSIVE ParseEpisodes(_)
ParseEpisodes(episodes) ==
    IF episodes = <<>> THEN <<>>
    ELSE EpisodeOf(Head(episodes)) \o ParseEpisodes(Tail(episodes))

\* Line 129 missing: every item is given an entry.
EntryAlways(videos) == TRUE

\* Line 129: `if videos:`.
EntryKept(videos) == videos # <<>>

\* Lines 113-136, one iteration: the entries (none or one) an item adds to
\* results.  item.get("vod_play_url", "") is the stored value when the key is
\* present, whatever its type, and .split exists on strings only.
ParseItem(item) ==
    IF item.t # "dict" THEN Raise("AttributeError")
    ELSE
    LET play == Get(item.v, "vod_play_url", Str(<<>>)) IN
    IF play.t # "str" THEN Raise("AttributeError")
    ELSE
    LET play_urls_str == FirstSource(play.v)
        videos == ParseEpisodes(Split(play_urls_str, EpisodeSep))
    IN  Ok(IF EntryKept(videos)
             THEN << [name          |-> Get(item.v, "vod_name", UnknownName),
                      vod_pic       |-> Get(item.v, "vod_pic", Str(<<>>)),
                      videos        |-> videos,
                      vod_id        |-> Get(item.v, "vod_id", Str(<<>>)),
                      vod_douban_id |-> Get(item.v, "vod_douban_id", Str(<<>>))] >>
             ELSE <<>>)

\* Lines 112-136: the loop, stopped by the first item that raises.
RECURSIVE ParseItems(_)
ParseItems(cms_list) ==
    IF cms_list = <<>> THEN Ok(<<>>)
    ELSE LET first == ParseItem(Head(cms_list)) IN
         IF first.raised THEN first
         ELSE LET rest == ParseItems(Tail(cms_list)) IN
              IF rest.raised THEN rest ELSE Ok(first.value \o rest.value)

\* Line 110 with `results` kept at module level: a call returns the entries
\* of the calls before it too.
RECURSIVE EarlierResults(_)
EarlierResults(done) ==
    IF done = <<>> THEN <<>>
    ELSE LET call == tasks[Head(done)].norm IN
         (IF call.called /\ ~call.out.raised THEN call.out.value.result ELSE <<>>)
         \o EarlierResults(Tail(done))
ParseSharedResults(source_name, cms_list) ==
    LET results == ParseItems(cms_list) IN
    IF results.raised THEN results
    ELSE Ok([t |-> "dict", name |-> source_name,
             result |-> EarlierResults(completed) \o results.value])

\* Lines 110-141: `results` is a fresh local list; nothing but the two
\* arguments is read.
parse_cms_data(source_name, cms_list) ==
    LET results == ParseItems(cms_list) IN
    IF results.raised THEN results
    ELSE Ok([t |-> "dict", name |-> source_name, result |-> results.value])

\* Lines 112-136 only read cms_list and its items (.get, .split): the list
\* the caller passed is the same after the call.
ListAfterParse(cms_list) == cms_list

-----------------------------------------------------------------------------
(* fetch_and_process, lines 144-186 *)

\* httpx: Response.is_success, the statuses raise_for_status lets through.
SuccessRange == 200..299

\* Lines 170-179: the rest of the try block once client.get has returned.
ProcessResponse(name, response) ==
    IF response.status \notin SuccessRange THEN Raise("HTTPStatusError")
    ELSE IF ~response.body.json THEN Raise("JSONDecodeError")
    ELSE LET data == response.body.data IN
         IF data.t # "dict" THEN Raise("AttributeError")
         ELSE LET code == Get(data.v, "code", None)
                  list == Get(data.v, "list", None)
              IN  IF code.t = "int" /\ code.v = 1 /\ Truthy(list)
                     THEN parse_cms_data(name, list.v)
                     ELSE Ok(None)

\* The call of line 176, as the task makes it or not for the response of
\* its GET: whether the call leaves the list it was given as it was, and
\* what the call returns or raises (before the handlers of lines 181-186
\* see it).  The arguments are the task's source name and the "list" of
\* its response.
NoCall == [called |-> FALSE, list_kept |-> TRUE, out |-> Ok(None)]

NormalizerCall(name, resp) ==
    IF resp.kind # "http" THEN NoCall
    ELSE IF resp.status \notin SuccessRange \/ ~resp.body.json THEN NoCall
    ELSE LET data == resp.body.data IN
         IF data.t # "dict" THEN NoCall
         ELSE LET code == Get(data.v, "code", None)
                  list == Get(data.v, "list", None)
              IN  IF code.t = "int" /\ code.v = 1 /\ Truthy(list)
                     THEN [called |-> TRUE,
                           list_kept |-> ListAfterParse(list.v) = list.v,
                           out |-> parse_cms_data(name, list.v)]
                     ELSE NoCall

\* Lines 161-179: the try block, resumed with what the awaited GET produced.
TryBlock(name, resp) ==
    CASE resp.kind = "timeout" -> Raise("TimeoutException")
      [] resp.kind = "fault"   -> Raise("ConnectError")
      [] OTHER                 -> ProcessResponse(name, resp)

\* Lines 181-183 re-raising instead of returning None.
ExceptTimeoutReraised(r) ==
    IF r.raised /\ r.exc # "TimeoutException" THEN Ok(None) ELSE r

\* Lines 184-186 missing: only the timeout is handled.
ExceptOnlyTimeout(r) ==
    IF r.raised /\ r.exc = "TimeoutException" THEN Ok(None) ELSE r

\* Lines 181-186: the two handlers; every modelled exception is an Exception.
ExceptHandlers(r) ==
    IF ~r.raised THEN r
    ELSE IF r.exc = "TimeoutException" THEN Ok(None)
    ELSE Ok(None)

\* What the task of endpoint `name` completes with, given the outcome `resp`
\* of its one GET.
fetch_and_process(name, resp) == ExceptHandlers(TryBlock(name, resp))

\* Line 156: the request URL.
RequestUrl(source, keyword) ==
    [base_url |-> source.base_url, ac |-> "detail", wd |-> keyword]

-----------------------------------------------------------------------------
(* Inputs *)

\* Raw items a provider may send: a playable one, one whose only token has
\* no '$' (no episode), one whose vod_play_url is JSON null.
ItemGood == Dict([vod_name |-> Str(<<"S">>), vod_play_url |-> Str(<<"a", "$", "u">>)])
ItemBad  == Dict([vod_name |-> Str(<<"S">>), vod_play_url |-> Str(<<"a">>)])
ItemNull == Dict([vod_name |-> Str(<<"S">>), vod_play_url |-> None])

JsonBody(data) == [json |-> TRUE, data |-> data]
NotJson        == [json |-> FALSE]
Http(status, body) == [kind |-> "http", status |-> status, body |-> body]
Payload(code, items) == JsonBody(Dict([code |-> PyInt(code), list |-> List(items)]))

RespTimeout  == [kind |-> "timeout"]
RespFault    == [kind |-> "fault"]
RespGood     == Http(200, Payload(1, <<ItemGood>>))
RespNoEpisode == Http(200, Payload(1, <<ItemBad>>))
RespNullUrl  == Http(200, Payload(1, <<ItemNull>>))

\* The outcomes of one GET.
Responses ==
    { RespTimeout, RespFault,
      Http(500, NotJson),
      Http(200, NotJson),
      Http(200, JsonBody(List(<<>>))),
      Http(200, JsonBody(Dict([code |-> PyInt(0), msg |-> Str(<<"n">>)]))),
      Http(200, Payload(1, <<>>)),
      Http(200, Payload(0, <<ItemGood>>)),
      Http(200, JsonBody(Dict([list |-> List(<<ItemGood>>)]))),
      RespGood, RespNoEpisode, RespNullUrl }

EndpointName(k) == IF k % 2 = 1 THEN "srcA" ELSE "srcB"
Endpoint(k) == [name |-> EndpointName(k), base_url |-> k]
BaseUrls(n) == [k \in 1..n |-> Endpoint(k)]
Timeouts == {5, 8}

\* The configurations get_config() may load and POST /config may carry.
Configs == [timeout : Timeouts, base_urls : {BaseUrls(n) : n \in 0..MaxEndpoints}]

\* The outcomes that differ for the generator: a task that ends with None
\* after a timeout, one that ends with None because the normalizer raised,
\* one with a result of no entries and one with a result of one entry.
StreamResponses == { RespTimeout, RespNullUrl, RespNoEpisode, RespGood }

\* The raw item lists the normalizer is explored on: one item whose
\* vod_play_url is any string of at most MaxLen characters; one item with
\* each field absent, null or set; and the lists of two to MaxItems items
\* over four sample items.
PlayChars == {"a", "$", "#"}
PlayStrings == UNION { [1..k -> PlayChars] : k \in 0..MaxLen }
PlayItem(s) == Dict([vod_name |-> Str(<<"S">>), vod_play_url |-> Str(s)])

ItemKeys == {"vod_play_url", "vod_name", "vod_pic", "vod_id", "vod_douban_id"}
FieldValues(key) ==
    IF key = "vod_play_url"
       THEN {None, PyInt(1), Str(<<"a", "$", "u">>), Str(<<"a">>)}
       ELSE {None, Str(<<"x">>)}
FieldItems ==
    { Dict(d) : d \in UNION { { f \in [K -> {None, PyInt(1), Str(<<"a", "$", "u">>), Str(<<"a">>), Str(<<"x">>)}] :
                                   \A k \in K : f[k] \in FieldValues(k) } :
                               K \in SUBSET ItemKeys } }

ItemOther == Dict([vod_name |-> Str(<<"T">>), vod_play_url |-> Str(<<"b", "$", "v">>)])
SampleItems == {ItemGood, ItemBad, ItemNull, ItemOther}

ParseLists ==
    { <<PlayItem(s)>> : s \in PlayStrings }
    \cup { <<item>> : item \in FieldItems }
    \cup UNION { [1..n -> SampleItems] : n \in 2..MaxItems }
ParseResponses == { Http(200, Payload(1, l)) : l \in ParseLists }

\* GET /search query strings: ?keyword=kw, ?keyword= and no keyword at all.
Query(has, keyword) == [received |-> TRUE, has |-> has, keyword |-> keyword]
Queries == { Query(TRUE, "kw"), Query(TRUE, ""), Query(FALSE, "") }

-----------------------------------------------------------------------------
(* Initial state *)

NoGen     == [pc |-> "none", keyword |-> "", sources |-> <<>>, awaited |-> 0]
NoRequest == [received |-> FALSE, has |-> FALSE, keyword |-> ""]
NoReply   == [status |-> 0, body |-> "none"]
NoResp    == [kind |-> "pending"]
NoOutcome == Ok([t |-> "pending"])
NoClient  == [state |-> "none", released |-> 0]

Init ==
    /\ site_config \in Configs
    /\ request = NoRequest
    /\ reply = NoReply
    /\ gen = NoGen
    /\ client = NoClient
    /\ tasks = <<>>
    /\ queue = <<>>
    /\ completed = <<>>
    /\ frames = <<>>
    /\ started = site_config
    /\ cfg_reply = NoReply

TaskIds == DOMAIN tasks
Done(i) == tasks[i].st = "done"

\* The event loop runs the first steps of the tasks created at line 201 one
\* after the other (call_soon is FIFO and the list is built without a
\* suspension), so nothing else runs between the first and the last of them.
StartingTasks ==
    /\ \E i \in TaskIds : tasks[i].st = "created"
    /\ \E i \in TaskIds : tasks[i].st # "created"

-----------------------------------------------------------------------------
(* search, lines 214-225 *)

\* Line 219 missing: every keyword is searched.
KeywordNeverRejected(keyword) == FALSE

\* Line 219: the handler's own validation.
KeywordRejected(keyword) == keyword = ""

\* One search is followed at a time: a new request is taken once the
\* previous generator is finished and none of its tasks is still running.
SearchSlotFree ==
    /\ gen.pc \in {"none", "exhausted", "abandoned", "aborted"}
    /\ \A i \in TaskIds : Done(i)

Search(q) ==
    /\ SearchSlotFree
    /\ request' = q
    /\ client' = NoClient
    /\ tasks' = <<>>
    /\ queue' = <<>>
    /\ completed' = <<>>
    /\ frames' = <<>>
    /\ started' = site_config
    /\ IF ~q.has
          \* `keyword: str` is a required query parameter: FastAPI answers
          \* 422 without calling the handler.
          THEN /\ reply' = [status |-> 422, body |-> "validation error"]
               /\ gen' = NoGen
          ELSE IF KeywordRejected(q.keyword)
          THEN /\ reply' = [status |-> 200, body |-> "error: keyword is required"]
               /\ gen' = NoGen
          ELSE /\ reply' = [status |-> 200, body |-> "text/event-stream"]
               \* Line 223: the generator object is made here, with the list
               \* site_config["base_urls"] names now; its body has not run.
               /\ gen' = [pc |-> "created", keyword |-> q.keyword,
                          sources |-> site_config.base_urls, awaited |-> 0]
    /\ UNCHANGED <<site_config, cfg_reply>>

-----------------------------------------------------------------------------
(* search_event_generator, lines 189-211 *)

\* Lines 200-203 with every source given a second task (a retry issued up
\* front).
CreateTasksTwice(sources, keyword) ==
    [i \in 1..(2 * Len(sources)) |->
        LET source == sources[((i - 1) % Len(sources)) + 1] IN
        [st |-> "created", source |-> source,
         url |-> [base_url |-> source.base_url, ac |-> "detail", wd |-> keyword],
         gets |-> 0, timeout |-> 0, resp |-> [kind |-> "pending"],
         norm |-> [called |-> FALSE, list_kept |-> TRUE,
                   out |-> [raised |-> FALSE, value |-> [t |-> "None"]]],
         outcome |-> [raised |-> FALSE, value |-> [t |-> "pending"]]]]

\* Lines 200-203: one task per source, in list order.
CreateTasks(sources, keyword) ==
    [i \in 1..Len(sources) |->
        [st |-> "created", source |-> sources[i],
         url |-> RequestUrl(sources[i], keyword),
         gets |-> 0, timeout |-> 0, resp |-> NoResp, norm |-> NoCall,
         outcome |-> NoOutcome]]

\* The first pull: lines 198-203, up to the first suspension at line 207.
GenStart ==
    /\ gen.pc = "created"
    /\ client' = [state |-> "open", released |-> 0]
    /\ tasks' = CreateTasks(gen.sources, gen.keyword)
    /\ gen' = [gen EXCEPT !.pc = "running"]
    /\ UNCHANGED <<site_config, request, reply, queue, completed, frames,
                   started, cfg_reply>>

\* Lines 156-169: the first step of task i, up to the suspension inside
\* client.get; the timeout is read from the global at this point (line 166).
TaskStart(i) ==
    /\ tasks[i].st = "created"
    /\ \A j \in 1..(i - 1) : tasks[j].st # "created"
    /\ tasks' = [tasks EXCEPT ![i].st = "inflight",
                              ![i].gets = @ + 1,
                              ![i].timeout = site_config.timeout]
    /\ UNCHANGED <<site_config, request, reply, gen, client, queue, completed,
                   frames, started, cfg_reply>>

\* Lines 170-186: the GET of task i ends with resp, the task finishes, and
\* its done callback puts it on as_completed's queue.
TaskComplete(i, resp) ==
    /\ tasks[i].st = "inflight"
    /\ ~StartingTasks
    /\ tasks' = [tasks EXCEPT ![i].st = "done",
                              ![i].resp = resp,
                              ![i].norm = NormalizerCall(tasks[i].source.name, resp),
                              ![i].outcome = fetch_and_process(tasks[i].source.name, resp)]
    /\ queue' = Append(queue, i)
    /\ completed' = Append(completed, i)
    /\ UNCHANGED <<site_config, request, reply, gen, client, frames, started,
                   cfg_reply>>

\* Line 198 as a client that is closed by a statement after the loop, which
\* a cancelled generator does not reach.
ExitSkippedOnCancel(c, how) ==
    IF how = "cancel" THEN c
    ELSE [state |-> "closed", released |-> c.released + 1]

\* Line 198: leaving the `async with` block closes the client, however the
\* block is left: at its end, by an exception or by a cancellation.
AsyncWithExit(c, how) == [state |-> "closed", released |-> c.released + 1]

\* Line 206 awaiting the finished tasks in the order of the endpoint list.
NextInListOrder(q) ==
    LET k == CHOOSE k \in 1..Len(q) : \A m \in 1..Len(q) : q[k] <= q[m]
    IN  [task |-> q[k], rest |-> SubSeq(q, 1, k - 1) \o SubSeq(q, k + 1, Len(q))]

\* Line 206 handing out a finished task without taking it off the queue.
NextNotRemoved(q) == [task |-> Head(q), rest |-> q]

\* asyncio.as_completed (line 206): the next future is the task that has
\* been on the queue longest.
NextCompleted(q) == [task |-> Head(q), rest |-> Tail(q)]

\* Line 209 as `if result:`, without the test of the entry list.
EmitsAnyResult(result) == result.t = "dict"

\* Line 209: `result and result.get("result")`.
Emits(result) == result.t = "dict" /\ result.result # <<>>

\* Line 211: the frame for a result; src is the position of the task whose
\* result it is.
Frame(i, result) == [src |-> i, data |-> result]

\* Line 206 leaving the loop after the first future.
LoopDoneAfterFirst(awaited, n) == awaited >= 1 \/ awaited = n

\* Line 206: the loop goes on while a future is left.
LoopDone(awaited, n) == awaited = n

\* Lines 206-207 as `for result in await asyncio.gather(*tasks)`: nothing is
\* handed out before every task has finished.
ReadyWhenAllDone(q, ts) == q # <<>> /\ \A i \in DOMAIN ts : ts[i].st = "done"

\* Lines 206-207: `await future` resumes as soon as some finished task is
\* on as_completed's queue, whatever the other tasks ts are doing.
FutureReady(q, ts) == q # <<>>

\* Lines 206-211: one iteration; `await future` re-raises what the task raised,
\* which ends the generator through the `async with` of line 198.
Consume ==
    /\ gen.pc = "running"
    /\ ~LoopDone(gen.awaited, Len(tasks))
    /\ FutureReady(queue, tasks)
    /\ LET next == NextCompleted(queue)
           outcome == tasks[next.task].outcome
       IN  /\ queue' = next.rest
           /\ IF outcome.raised
                 THEN /\ gen' = [gen EXCEPT !.pc = "aborted"]
                      /\ client' = AsyncWithExit(client, "error")
                      /\ frames' = frames
                 ELSE /\ gen' = [gen EXCEPT !.awaited = @ + 1]
                      /\ client' = client
                      /\ frames' = IF Emits(outcome.value)
                                      THEN Append(frames, Frame(next.task, outcome.value))
                                      ELSE frames
    /\ UNCHANGED <<site_config, request, reply, tasks, completed, started, cfg_reply>>

\* The loop of line 206 is over: the `async with` block exits, the client is
\* closed and the generator ends.
Close ==
    /\ gen.pc = "running"
    /\ LoopDone(gen.awaited, Len(tasks))
    /\ gen' = [gen EXCEPT !.pc = "exhausted"]
    /\ client' = AsyncWithExit(client, "end")
    /\ UNCHANGED <<site_config, request, reply, tasks, queue, completed, frames,
                   started, cfg_reply>>

\* The consumer goes away (client disconnect): a generator that never ran
\* is dropped; a suspended one is cancelled at its await and leaves through
\* the `async with`, which closes the client.  The tasks are not cancelled.
\* The cancellation reaches the generator only when it is resumed, which is
\* after the first steps of the tasks it has just created.
Abandon ==
    /\ gen.pc \in {"created", "running"}
    /\ \A i \in TaskIds : tasks[i].st # "created"
    /\ gen' = [gen EXCEPT !.pc = "abandoned"]
    /\ client' = IF gen.pc = "running"
                    THEN AsyncWithExit(client, "cancel")
                    ELSE client
    /\ UNCHANGED <<site_config, request, reply, tasks, queue, completed, frames,
                   started, cfg_reply>>

-----------------------------------------------------------------------------
(* update_config, lines 232-270 *)

\* Line 251 placed before the write of lines 246-247: site_config is replaced
\* whether or not the file could be written.
ConfigAssignedFirst(old, config_data, write_ok) == config_data

\* Lines 243-251 when the write of line 246-247 succeeds (write_ok) or
\* raises IOError.
ConfigAfterUpdate(old, config_data, write_ok) ==
    IF write_ok THEN config_data ELSE old

UpdateConfig(config_data, write_ok) ==
    /\ ~StartingTasks
    /\ site_config' = ConfigAfterUpdate(site_config, config_data, write_ok)
    /\ cfg_reply' = IF write_ok THEN [status |-> 200, body |-> "updated"]
                               ELSE [status |-> 500, body |-> "Failed to write config file"]
    /\ UNCHANGED <<request, reply, gen, client, tasks, queue, completed, frames,
                   started>>

-----------------------------------------------------------------------------

Next ==
    \/ \E q \in Queries : Search(q)
    \/ GenStart
    \/ \E i \in TaskIds : TaskStart(i)
    \/ \E i \in TaskIds, resp \in StreamResponses : TaskComplete(i, resp)
    \/ Consume
    \/ Close
    \/ Abandon
    \/ \E c \in Configs, ok \in BOOLEAN : UpdateConfig(c, ok)

Spec == Init /\ [][Next]_vars

\* The event loop runs every ready task and the consumer keeps pulling:
\* a started generator, a created task, a pending GET (which ends at the
\* latest by its timeout) and a finished task all make their step.
Fairness ==
    /\ WF_vars(GenStart)
    /\ WF_vars(\E i \in TaskIds : TaskStart(i))
    /\ \A i \in 1..MaxEndpoints :
          WF_vars(i \in TaskIds /\ \E resp \in StreamResponses : TaskComplete(i, resp))
    /\ WF_vars(Consume)
    /\ WF_vars(Close)

LiveSpec == Spec /\ Fairness

\* Searches over a configuration that stays as loaded, in which the
\* consumer keeps pulling until it leaves and nothing else is promised: no
\* GET has to end, no task has to be scheduled.
PullNext ==
    \/ \E q \in Queries : Search(q)
    \/ GenStart
    \/ \E i \in TaskIds : TaskStart(i)
    \/ \E i \in TaskIds, resp \in StreamResponses : TaskComplete(i, resp)
    \/ Consume
    \/ Close
    \/ Abandon

PullSpec == Init /\ [][PullNext]_vars /\ WF_vars(Consume)

\* Searches over a configuration that stays as loaded, every GET ending in
\* any of Responses: the fetcher applied to each response it can get.
FetchNext ==
    \/ \E q \in Queries : Search(q)
    \/ GenStart
    \/ \E i \in TaskIds : TaskStart(i)
    \/ \E i \in TaskIds, resp \in Responses : TaskComplete(i, resp)
    \/ Consume
    \/ Close

FetchSpec == Init /\ [][FetchNext]_vars

\* Searches over one endpoint whose provider answers with any of
\* ParseResponses: the normalizer applied, where the program applies it, to
\* each list of ParseLists.
ParseInit == Init /\ Len(site_config.base_urls) = 1

ParseNext ==
    \/ \E q \in Queries : Search(q)
    \/ GenStart
    \/ \E i \in TaskIds : TaskStart(i)
    \/ \E i \in TaskIds, resp \in ParseResponses : TaskComplete(i, resp)
    \/ Consume
    \/ Close

ParseSpec == ParseInit /\ [][ParseNext]_vars

\* Searches over a list that names the same endpoint twice: the normalizer
\* is called twice for the same provider.
RepeatInit ==
    /\ site_config \in [timeout : Timeouts, base_urls : {<<Endpoint(1), Endpoint(1)>>}]
    /\ request = NoRequest
    /\ reply = NoReply
    /\ gen = NoGen
    /\ client = NoClient
    /\ tasks = <<>>
    /\ queue = <<>>
    /\ completed = <<>>
    /\ frames = <<>>
    /\ started = site_config
    /\ cfg_reply = NoReply

RepeatNext ==
    \/ \E q \in Queries : Search(q)
    \/ GenStart
    \/ \E i \in TaskIds : TaskStart(i)
    \/ \E i \in TaskIds, resp \in StreamResponses : TaskComplete(i, resp)
    \/ Consume
    \/ Close

RepeatSpec == RepeatInit /\ [][RepeatNext]_vars

-----------------------------------------------------------------------------
(* Properties *)

Pos(seq, x) == CHOOSE k \in 1..Len(seq) : seq[k] = x
FrameSources == { frames[k].src : k \in 1..Len(frames) }
\* The generator body has run lines 198-203.
Launched == client.state # "none"
ReturnedNone(i) == ~tasks[i].outcome.raised /\ tasks[i].outcome.value = None
ReturnedResult(i) == ~tasks[i].outcome.raised /\ tasks[i].outcome.value.t = "dict"
TimedOut(i) == tasks[i].resp = RespTimeout

\* C1: a search over N endpoints has exactly N tasks, task i for endpoint
\* i, and no task issues more than one GET, whatever its GET ended with; a
\* finished task has issued exactly one.
C1_OneFetchPerEndpoint ==
    /\ Launched => Len(tasks) = Len(gen.sources)
    /\ ~Launched => tasks = <<>>
    /\ \A i \in TaskIds :
          /\ tasks[i].source = gen.sources[i]
          /\ tasks[i].gets <= 1
          /\ tasks[i].st # "created" => tasks[i].gets = 1

\* Reached: a two-endpoint search is over, the first GET timed out and the
\* second gave a list the normalizer failed on, and each endpoint was
\* fetched once.
C1_Witness ==
    /\ gen.pc = "exhausted"
    /\ Len(tasks) = 2
    /\ tasks[1].resp = RespTimeout /\ tasks[1].gets = 1
    /\ tasks[2].resp = RespNullUrl /\ tasks[2].gets = 1

\* C2: every frame is the result of a finished task that returned a
\* SourceResult with at least one entry; a task that finished with None or
\* with no entries has no frame.
C2_FramesOnlyNonEmpty ==
    /\ \A k \in 1..Len(frames) :
          LET i == frames[k].src IN
          /\ i \in TaskIds
          /\ Done(i)
          /\ ReturnedResult(i)
          /\ tasks[i].outcome.value.result # <<>>
          /\ frames[k].data = tasks[i].outcome.value
    /\ \A i \in TaskIds :
          (Done(i) /\ (ReturnedNone(i) \/ (ReturnedResult(i) /\ tasks[i].outcome.value.result = <<>>)))
             => i \notin FrameSources

\* Reached: a result with no entries and a None have both been
\* awaited and skipped, and the one frame is the non-empty result.
C2_Witness ==
    /\ Len(tasks) = 2
    /\ gen.awaited = 2
    /\ tasks[1].resp = RespNoEpisode
    /\ ReturnedResult(1) /\ tasks[1].outcome.value.result = <<>>
    /\ tasks[2].resp = RespGood
    /\ Len(frames) = 1 /\ frames[1].src = 2

\* C3: frames are in completion order: of two frames, the earlier one
\* belongs to the task that finished first, wherever the two endpoints are
\* in the list.
C3_CompletionOrder ==
    \A p, q \in 1..Len(frames) :
        p < q => Pos(completed, frames[p].src) < Pos(completed, frames[q].src)

\* Reached: the second endpoint finished first and its frame precedes the
\* first endpoint's.
C3_Witness ==
    /\ completed = <<2, 1>>
    /\ Len(frames) = 2
    /\ frames[1].src = 2
    /\ frames[2].src = 1

AllSkipped == \A i \in TaskIds : Done(i) /\ ~(ReturnedResult(i) /\ tasks[i].outcome.value.result # <<>>)

\* C4: a started stream ends (it is exhausted, unless the consumer left
\* first); it is exhausted only when each of the N tasks has finished, the
\* skipped ones included, and with every result skipped it ends with no
\* frame.
C4_StreamCloses ==
    /\ (gen.pc = "running") ~> (gen.pc \in {"exhausted", "abandoned"})
    /\ [](gen.pc = "exhausted" =>
            /\ Len(tasks) = Len(gen.sources)
            /\ \A i \in TaskIds : Done(i)
            /\ gen.awaited = Len(tasks)
            /\ client.state = "closed"
            /\ AllSkipped => frames = <<>>)
    /\ [](gen.pc # "aborted")

\* Reached: a two-endpoint search is exhausted with both results skipped and
\* no frame.
C4_Witness ==
    /\ gen.pc = "exhausted"
    /\ Len(tasks) = 2
    /\ AllSkipped
    /\ frames = <<>>

\* C5: no endpoint position has two frames, and there are never more frames
\* than endpoints.
C5_AtMostOnce ==
    /\ \A p, q \in 1..Len(frames) : p # q => frames[p].src # frames[q].src
    /\ Len(frames) <= Len(gen.sources)
    /\ FrameSources \subseteq 1..Len(gen.sources)

\* Reached: both endpoints of a search have their one frame.
C5_Witness ==
    /\ gen.pc = "exhausted"
    /\ Len(gen.sources) = 2
    /\ FrameSources = {1, 2}
    /\ Len(frames) = 2

SucceededNonEmpty(i) ==
    /\ tasks[i].resp.kind = "http"
    /\ ReturnedResult(i)
    /\ tasks[i].outcome.value.result # <<>>

\* C6: when the stream is over and each of the N GETs either timed out or
\* gave a non-empty result, the stream ended normally with exactly one
\* frame for each provider that did not time out: N - K frames.
C6_TimeoutsOmitted ==
    (/\ gen.pc \in {"exhausted", "aborted"}
     /\ \A i \in TaskIds : Done(i) /\ (TimedOut(i) \/ SucceededNonEmpty(i)))
    => /\ gen.pc = "exhausted"
       /\ FrameSources = { i \in TaskIds : ~TimedOut(i) }
       /\ Len(frames) = Len(tasks) - Cardinality({ i \in TaskIds : TimedOut(i) })
       /\ \A k \in 1..Len(frames) : frames[k].data.name = gen.sources[frames[k].src].name

\* Reached: provider 1 timed out, provider 2 gave one valid entry, and the
\* finished stream is the one frame of provider 2.
C6_Witness ==
    /\ gen.pc = "exhausted"
    /\ Len(tasks) = 2
    /\ TimedOut(1)
    /\ tasks[2].resp = RespGood
    /\ Len(frames) = 1
    /\ frames[1].src = 2

ErrorReplies == { [status |-> 422, body |-> "validation error"],
                  [status |-> 200, body |-> "error: keyword is required"] }

\* C7: after a search request with an empty or missing keyword the reply is
\* an error, and no generator, no client and no task exists for it.
C7_EmptyKeywordRejected ==
    (request.received /\ (~request.has \/ request.keyword = ""))
    => /\ reply \in ErrorReplies
       /\ gen = NoGen
       /\ client = NoClient
       /\ tasks = <<>>
       /\ frames = <<>>

\* Reached: ?keyword= was answered by the handler's error.
C7_Witness ==
    /\ request = Query(TRUE, "")
    /\ reply = [status |-> 200, body |-> "error: keyword is required"]
    /\ tasks = <<>>

NullPlayUrl(item) ==
    /\ "vod_play_url" \in DOMAIN item.v
    /\ item.v["vod_play_url"].t # "str"

\* The response is 2xx, JSON, an object, with code 1 and a non-empty list.
SuccessConditions(resp) ==
    /\ resp.kind = "http"
    /\ resp.status \in 200..299
    /\ resp.body.json
    /\ resp.body.data.t = "dict"
    /\ "code" \in DOMAIN resp.body.data.v
    /\ resp.body.data.v["code"] = PyInt(1)
    /\ "list" \in DOMAIN resp.body.data.v
    /\ resp.body.data.v["list"].v # <<>>

\* The failure modes of one request: no response, or a response that misses
\* a success condition, or one whose list the normalizer fails on.
FailureMode(resp) ==
    \/ ~SuccessConditions(resp)
    \/ \E k \in 1..Len(resp.body.data.v["list"].v) :
          NullPlayUrl(resp.body.data.v["list"].v[k])

\* C8: a finished task has returned, never raised, and returned None in
\* every failure mode; awaiting it never aborts the generator.
C8_FetcherNeverRaises ==
    /\ \A i \in TaskIds :
          Done(i) => /\ ~tasks[i].outcome.raised
                     /\ FailureMode(tasks[i].resp) => tasks[i].outcome.value = None
    /\ gen.pc # "aborted"

\* Reached: the normalizer raised inside a task, the task returned None and
\* the generator awaited it and went on.
C8_Witness ==
    /\ Len(tasks) = 2
    /\ tasks[1].resp = RespNullUrl
    /\ Done(1)
    /\ ReturnedNone(1)
    /\ tasks[2].resp = Http(200, JsonBody(List(<<>>)))
    /\ ReturnedNone(2)
    /\ gen.pc = "exhausted"

\* C9 as stated: a finished task returned a SourceResult exactly when the
\* success conditions hold, and then it is the normalizer's output for
\* (endpoint name, list).
C9_ResultIffSuccessConditions ==
    \A i \in TaskIds :
        Done(i) =>
           /\ ReturnedResult(i) <=> SuccessConditions(tasks[i].resp)
           /\ SuccessConditions(tasks[i].resp) =>
                 tasks[i].outcome =
                    parse_cms_data(tasks[i].source.name, tasks[i].resp.body.data.v["list"].v)

\* C10 as stated: the endpoint list of a search and the timeout each of its
\* started fetchers uses are those of the configuration in place when the
\* request was accepted.
C10_SingleSnapshot ==
    Launched =>
       /\ gen.sources = started.base_urls
       /\ \A i \in TaskIds :
             tasks[i].st # "created" => tasks[i].timeout = started.timeout

\* What a task returns for each outcome of its own GET, written out.
GoodEntry ==
    [name |-> Str(<<"S">>), vod_pic |-> Str(<<>>),
     videos |-> << [name |-> Str(<<"a">>), video_url |-> Str(<<"u">>)] >>,
     vod_id |-> Str(<<>>), vod_douban_id |-> Str(<<>>)]
OwnValue(i) ==
    IF tasks[i].resp = RespGood
       THEN [t |-> "dict", name |-> gen.sources[i].name, result |-> <<GoodEntry>>]
    ELSE IF tasks[i].resp = RespNoEpisode
       THEN [t |-> "dict", name |-> gen.sources[i].name, result |-> <<>>]
    ELSE None

\* C11: what a finished task B returned depends on B's own GET alone, and
\* once the stream is over B has a frame exactly when its own GET gave a
\* non-empty result, whatever the GET of any other endpoint A ended with
\* (a timeout or not): the frames of the others are the same in both cases.
C11_TimeoutIsolated ==
    \A b \in TaskIds :
        Done(b) =>
           /\ tasks[b].outcome = Ok(OwnValue(b))
           /\ gen.pc \in {"exhausted", "aborted"} =>
                 (b \in FrameSources <=> tasks[b].resp = RespGood)

\* Reached: endpoint 2 timed out, endpoint 1 finished after it with a
\* non-empty result, and the finished stream has endpoint 1's frame.
C11_Witness ==
    /\ gen.pc = "exhausted"
    /\ completed = <<2, 1>>
    /\ TimedOut(2)
    /\ tasks[1].resp = RespGood
    /\ FrameSources = {1}

\* C12: the client a search opened is released exactly once: it is open and
\* unreleased while the generator runs, closed with one release once the
\* generator is exhausted or was abandoned, and never released twice.
C12_ReleasedOnce ==
    /\ client.released <= 1
    /\ gen.pc = "running" => client = [state |-> "open", released |-> 0]
    /\ (Launched /\ gen.pc \in {"exhausted", "abandoned", "aborted"})
          => client = [state |-> "closed", released |-> 1]
    /\ gen.pc \in {"none", "created"} => client = NoClient

\* Reached: the consumer left while a GET was pending and the client has
\* been released once.
C12_Witness ==
    /\ gen.pc = "abandoned"
    /\ \E i \in TaskIds : tasks[i].st = "inflight"
    /\ client = [state |-> "closed", released |-> 1]

\* The result of task i is finished, non-empty and not yet handed out.
Unemitted(i) ==
    /\ i \in TaskIds
    /\ \E k \in 1..Len(queue) : queue[k] = i
    /\ Emits(tasks[i].outcome.value)

\* C13: while the consumer pulls, a finished non-empty result that has not
\* been emitted leads to its frame (or to the end of the stream by the
\* consumer leaving), with no GET that is still pending required to end.
C13_NeverBlocksOnSlow ==
    \A i \in 1..MaxEndpoints :
        (gen.pc = "running" /\ Unemitted(i)) ~> (i \in FrameSources \/ gen.pc # "running")

\* Reached: the frame of one provider is out while the GET of another is
\* still pending.
C13_Witness ==
    /\ gen.pc = "running"
    /\ \E i \in FrameSources : \E j \in TaskIds : tasks[j].st = "inflight"

-----------------------------------------------------------------------------
(* The normalizer's result, stated character by character *)

\* The k-th least element of a set of positions.
Nth(P, k) == CHOOSE p \in P : Cardinality({ q \in P : q < p }) = k - 1

\* The text before the first "$$$" of s, all of s when there is none.
SepStarts(s) ==
    { p \in 1..(Len(s) - 2) : s[p] = "$" /\ s[p + 1] = "$" /\ s[p + 2] = "$" }
FirstSegment(s) ==
    IF SepStarts(s) = {} THEN s ELSE SubSeq(s, 1, Nth(SepStarts(s), 1) - 1)

\* The tokens of a segment: the texts between its '#' characters.
HashAt(seg) == { p \in 1..Len(seg) : seg[p] = "#" }
Cut(seg, k) ==
    IF k = 0 THEN 0
    ELSE IF k > Cardinality(HashAt(seg)) THEN Len(seg) + 1
    ELSE Nth(HashAt(seg), k)
Tokens(seg) ==
    [k \in 1..(Cardinality(HashAt(seg)) + 1) |->
        SubSeq(seg, Cut(seg, k - 1) + 1, Cut(seg, k) - 1)]

\* A token is name$url when it holds exactly one '$'.
DollarAt(token) == { p \in 1..Len(token) : token[p] = "$" }
WellFormed(token) == Cardinality(DollarAt(token)) = 1
EpisodeFor(token) ==
    LET p == Nth(DollarAt(token), 1) IN
    [name |-> Str(SubSeq(token, 1, p - 1)),
     video_url |-> Str(SubSeq(token, p + 1, Len(token)))]

RECURSIVE WellFormedEpisodes(_)
WellFormedEpisodes(tokens) ==
    IF tokens = <<>> THEN <<>>
    ELSE (IF WellFormed(Head(tokens)) THEN <<EpisodeFor(Head(tokens))>> ELSE <<>>)
         \o WellFormedEpisodes(Tail(tokens))

\* The list task i passed at line 176.
CmsListOf(i) == tasks[i].resp.body.data.v["list"].v

\* The calls of line 176 that returned, and those made for one item whose
\* vod_play_url is a string.
Returned(i) == tasks[i].norm.called /\ ~tasks[i].norm.out.raised
OnePlayString(i) ==
    /\ Returned(i)
    /\ Len(CmsListOf(i)) = 1
    /\ CmsListOf(i)[1].t = "dict"
    /\ "vod_play_url" \in DOMAIN CmsListOf(i)[1].v
    /\ CmsListOf(i)[1].v["vod_play_url"].t = "str"
PlayOf(i) == CmsListOf(i)[1].v["vod_play_url"].v
ResultOf(i) == tasks[i].norm.out.value.result
VideosOf(i) == IF ResultOf(i) = <<>> THEN <<>> ELSE ResultOf(i)[1].videos

\* C14: of the tokens of an item's first play source, those that hold
\* exactly one '$' become the item's episodes {name, video_url}, in token
\* order, and every other token (no '$', several '$', empty) is left out.
C14_MalformedTokensDropped ==
    \A i \in TaskIds :
        OnePlayString(i) =>
            VideosOf(i) = WellFormedEpisodes(Tokens(FirstSegment(PlayOf(i))))

\* Reached: "$#a#a$a" was normalized: the token without '$' is gone and
\* its two siblings are episodes, in order.
C14_Witness ==
    \E i \in TaskIds :
        /\ OnePlayString(i)
        /\ PlayOf(i) = <<"$", "#", "a", "#", "a", "$", "a">>
        /\ VideosOf(i) = << [name |-> Str(<<>>), video_url |-> Str(<<>>)],
                            [name |-> Str(<<"a">>), video_url |-> Str(<<"a">>)] >>

\* The videos an item should yield, and the entries a list should: one per
\* item that has a well-formed episode, in list order.
ItemVideos(item) ==
    LET play == Get(item.v, "vod_play_url", Str(<<>>)) IN
    WellFormedEpisodes(Tokens(FirstSegment(play.v)))
RECURSIVE PlayableItems(_)
PlayableItems(cms_list) ==
    IF cms_list = <<>> THEN <<>>
    ELSE (IF ItemVideos(Head(cms_list)) # <<>> THEN <<Head(cms_list)>> ELSE <<>>)
         \o PlayableItems(Tail(cms_list))

\* C15: no entry of a returned 'result' list has an empty 'videos' list,
\* and the entries are those of the items that have at least one valid
\* episode, one each, in input order.
C15_NoEmptyEntries ==
    \A i \in TaskIds :
        Returned(i) =>
            LET kept == PlayableItems(CmsListOf(i)) IN
            /\ \A k \in 1..Len(ResultOf(i)) : ResultOf(i)[k].videos # <<>>
            /\ Len(ResultOf(i)) = Len(kept)
            /\ \A k \in 1..Len(kept) :
                  /\ ResultOf(i)[k].videos = ItemVideos(kept[k])
                  /\ ResultOf(i)[k].name = Get(kept[k].v, "vod_name", UnknownName)

\* Reached: of three items the middle one had no valid episode; the result
\* holds the first and the third, in that order.
C15_Witness ==
    \E i \in TaskIds :
        /\ Returned(i)
        /\ CmsListOf(i) = <<ItemOther, ItemBad, ItemGood>>
        /\ Len(ResultOf(i)) = 2
        /\ ResultOf(i)[1].name = Str(<<"T">>)
        /\ ResultOf(i)[2].name = Str(<<"S">>)

\* C16: no call of the normalizer raises, whatever the items hold.
C16_NoExceptionEscapes ==
    \A i \in TaskIds : tasks[i].norm.called => ~tasks[i].norm.out.raised

\* What does hold: an item whose vod_play_url is absent or a string is
\* normalized without an exception, and an entry's absent fields take their
\* defaults.
C16_AbsentFieldsDefault ==
    \A i \in TaskIds :
        /\ (tasks[i].norm.called /\ \A k \in 1..Len(CmsListOf(i)) :
                Get(CmsListOf(i)[k].v, "vod_play_url", Str(<<>>)).t = "str")
              => ~tasks[i].norm.out.raised
        /\ (OnePlayString(i) /\ ResultOf(i) # <<>>) =>
              LET item == CmsListOf(i)[1].v
                  entry == ResultOf(i)[1]
              IN  /\ entry.name = (IF "vod_name" \in DOMAIN item THEN item["vod_name"] ELSE UnknownName)
                  /\ entry.vod_pic = (IF "vod_pic" \in DOMAIN item THEN item["vod_pic"] ELSE Str(<<>>))
                  /\ entry.vod_id = (IF "vod_id" \in DOMAIN item THEN item["vod_id"] ELSE Str(<<>>))
                  /\ entry.vod_douban_id =
                        (IF "vod_douban_id" \in DOMAIN item THEN item["vod_douban_id"] ELSE Str(<<>>))

\* The episodes of the play sources after the first.
RECURSIVE LaterEpisodes(_)
LaterEpisodes(segments) ==
    IF segments = <<>> THEN <<>>
    ELSE WellFormedEpisodes(Tokens(Head(segments))) \o LaterEpisodes(Tail(segments))
LaterOf(i) == LaterEpisodes(Tail(Split(PlayOf(i), SourceSep)))
InSeq(x, seq) == \E k \in 1..Len(seq) : seq[k] = x
FirstOf(i) == WellFormedEpisodes(Tokens(FirstSegment(PlayOf(i))))

\* C18: only the first "$$$"-delimited play source counts: every episode
\* returned is one of the first source, an episode found in a later source
\* only is not returned, and an item whose first source has no valid
\* episode gets no entry whatever its later sources hold.
C18_FirstSourceOnly ==
    \A i \in TaskIds :
        OnePlayString(i) =>
            /\ \A k \in 1..Len(VideosOf(i)) : InSeq(VideosOf(i)[k], FirstOf(i))
            /\ \A k \in 1..Len(LaterOf(i)) :
                  ~InSeq(LaterOf(i)[k], FirstOf(i)) => ~InSeq(LaterOf(i)[k], VideosOf(i))
            /\ FirstOf(i) = <<>> => ResultOf(i) = <<>>

\* Reached: "$a$$$a$" was normalized: the episode a$ of its second source
\* is not returned, the episode $a of its first source is.
C18_Witness ==
    \E i \in TaskIds :
        /\ OnePlayString(i)
        /\ PlayOf(i) = <<"$", "a", "$", "$", "$", "a", "$">>
        /\ LaterOf(i) = << [name |-> Str(<<"a">>), video_url |-> Str(<<>>)] >>
        /\ VideosOf(i) = << [name |-> Str(<<>>), video_url |-> Str(<<"a">>)] >>

\* Also reached: "$$$a$a", whose first source is empty and whose second
\* holds the episode a$a, gave no entry.
C18_DroppedDespiteLater ==
    \E i \in TaskIds :
        /\ OnePlayString(i)
        /\ PlayOf(i) = <<"$", "$", "$", "a", "$", "a">>
        /\ LaterOf(i) = << [name |-> Str(<<"a">>), video_url |-> Str(<<"a">>)] >>
        /\ ResultOf(i) = <<>>

\* Two calls of the normalizer with the same arguments.
SameCall(a, b) ==
    /\ tasks[a].norm.called /\ tasks[b].norm.called
    /\ tasks[a].source.name = tasks[b].source.name
    /\ CmsListOf(a) = CmsListOf(b)

\* A step in which task i calls the normalizer.
CallsNormalizer(i) ==
    /\ i \in DOMAIN tasks /\ i \in DOMAIN tasks'
    /\ ~tasks[i].norm.called /\ tasks'[i].norm.called

C19_NoReleaseWhileInFlight ==
    client.state = "closed" => \A i \in TaskIds : tasks[i].st # "inflight"

\* C20: a POST /config whose file write fails answers 500 and leaves
\* site_config as it was; site_config changes only in a step that answers
\* 200, and then it is the posted configuration as a whole.
C20_ConfigAllOrNothing ==
    [][/\ (cfg_reply' # cfg_reply /\ cfg_reply'.status = 500) => site_config' = site_config
       /\ site_config' # site_config =>
             /\ cfg_reply'.status = 200
             /\ site_config' \in Configs
       /\ (cfg_reply' # cfg_reply /\ cfg_reply'.status = 200) => site_config' \in Configs]_vars

\* Reached: a POST /config failed on the file write, and the search taken
\* after it fans out over the configuration that was loaded at the start.
C20_Witness ==
    /\ cfg_reply.status = 500
    /\ gen.pc = "running"
    /\ started = site_config
    /\ gen.sources = site_config.base_urls
    /\ Len(tasks) = 2

=============================================================================
